---- MODULE Spec2Model ----
(***************************************************************************)
(* Pop2Piano tokenizer: decoding of generated token ids into notes.        *)
(* Source: src/src/transformers/models/pop2piano/tokenization_pop2piano.py *)
(***************************************************************************)
EXTENDS Integers, Sequences, FiniteSets, TLC

VARIABLES
    tokens,             \* relative_tokens_to_notes: the `tokens` argument
    start_idx,          \* relative_tokens_to_notes: the `start_idx` argument
    cutoff_time_idx,    \* relative_tokens_to_notes: the `cutoff_time_idx` argument (None or an index)
    words,              \* decoded [token_type, value] pairs (line 288)
    pos,                \* position of the for loop of line 297 in `words`
    pc,                 \* control point of relative_tokens_to_notes
    current_idx,        \* time cursor (line 293)
    current_velocity,   \* last VELOCITY value (line 294)
    note_onsets_ready,  \* per-pitch pending onset, None or an index (line 295)
    notes,              \* notes appended so far, in emission order (line 296)
    result,             \* the returned note array (lines 331-337)
    opened,             \* history: <<pitch, onset>> of every onset written into note_onsets_ready
    attention_masks_present,  \* __call__: the three attention masks are all given (lines 418-422)
    attention_mask0,    \* __call__: attention_mask[:, 0], one 0/1 entry per mask row
    n_token_rows,       \* __call__: token_ids.shape[0]
    token_eos,          \* __call__: per row of token_ids, the last column holding the eos id, or None
    n_beatsteps,        \* __call__: beatsteps.shape[0]
    n_extrapolated,     \* __call__: extrapolated_beatstep.shape[0]
    call_pc,            \* control point of __call__
    batch_idx,          \* __call__: the end row of every example (lines 459-463)
    index,              \* __call__: position of the loop of line 468
    row_start_idx,      \* __call__: the local start_idx (lines 467, 503)
    decoded,            \* history: per finished iteration, the rows and columns handed to the decoder
    outcome,            \* how __call__ ended: "returned", "validation_error" or "crash"
    notes_list,         \* __call__: the aggregated notes, each tagged with the example it came from (line 465)
    batch_tokens,       \* relative_batch_tokens_to_notes: the rows of `tokens`, row `index` at position index + 1
    beat_offset_idx,    \* relative_batch_tokens_to_notes: the `beat_offset_idx` argument
    bars_per_batch,     \* relative_batch_tokens_to_notes: the `bars_per_batch` argument
    batch_cutoff_time_idx,  \* relative_batch_tokens_to_notes: the `cutoff_time_idx` argument
    batch_index,        \* position of the loop of line 214
    batch_notes_none,   \* whether the local `notes` is still None (lines 212, 226)
    batch_notes,        \* the local `notes` once it is an array (lines 227-229)
    batch_pc,           \* control point of relative_batch_tokens_to_notes
    batch_result,       \* the returned note list (lines 231-233)
    row_calls,          \* history: per row, the start, cutoff and result of its relative_tokens_to_notes call
    codec_pc,           \* control point of a conversion between a token id and a (type, value) pair
    codec_token,        \* _convert_token_to_id: the `token` argument (a value)
    codec_token_type,   \* _convert_token_to_id: the `token_type` argument
    codec_id,           \* the token id: result of _convert_token_to_id, argument of _convert_id_to_token
    codec_offset,       \* _convert_id_to_token: the `time_idx_offset` argument
    codec_out,          \* the [token_type, value] pair returned by _convert_id_to_token
    midi_pc,            \* control point of the conversion of one example's notes to Midi
    midi_notes,         \* notes_to_midi: the `notes` argument, <<onset, offset, pitch, velocity>> each
    beatsteps,          \* __call__: feature_extractor_output["beatsteps"][index]
    extrapolated_beatstep,  \* __call__: feature_extractor_output["extrapolated_beatstep"][index]
    mask_valid,         \* __call__: np.max(np.where(attention_mask_extrapolated_beatstep == 1)[0]) + 1
    beatstep,           \* notes_to_midi: the `beatstep` argument (the truncated extrapolated beatstep)
    offset_sec,         \* notes_to_midi: the `offset_sec` argument
    midi_pos,           \* position of the loop of line 358
    new_notes,          \* notes_to_midi: the local `new_notes`, <<start, end, pitch, velocity>> each
    instrument_notes,   \* pretty_midi_object.instruments[0].notes after remove_invalid_notes
    shifted_notes,      \* the notes __call__ appends to notes_list for the example (lines 497-500)
    midi_outcome        \* "none", "returned" or "index_error"

segvars == <<tokens, start_idx, cutoff_time_idx, words, pos, pc, current_idx,
             current_velocity, note_onsets_ready, notes, result, opened>>

callvars == <<attention_masks_present, attention_mask0, n_token_rows, token_eos,
              n_beatsteps, n_extrapolated, call_pc, batch_idx, index, row_start_idx,
              decoded, outcome, notes_list>>

batchvars == <<batch_tokens, beat_offset_idx, bars_per_batch, batch_cutoff_time_idx,
               batch_index, batch_notes_none, batch_notes, batch_pc, batch_result,
               row_calls>>

codecvars == <<codec_pc, codec_token, codec_token_type, codec_id, codec_offset, codec_out>>

midivars == <<midi_pc, midi_notes, beatsteps, extrapolated_beatstep, mask_valid, beatstep,
              offset_sec, midi_pos, new_notes, instrument_notes, shifted_notes, midi_outcome>>

vars == <<segvars, callvars, batchvars, codecvars, midivars>>

-----------------------------------------------------------------------------
(* Configuration read from the vocabulary file (lines 122-125, 312).       *)

\* Python's None; every real index of the model is >= 0.
None == -1

\* The sizes of the four vocabulary ranges: the documented defaults.
vocab_size_special == 4
vocab_size_note == 128
vocab_size_velocity == 2
vocab_size_time == 100
\* self.encoder["DEFAULT_VELOCITY"], as the published vocabulary file sets it.
DEFAULT_VELOCITY == 77

TOKEN_SPECIAL == "TOKEN_SPECIAL"
TOKEN_NOTE == "TOKEN_NOTE"
TOKEN_VELOCITY == "TOKEN_VELOCITY"
TOKEN_TIME == "TOKEN_TIME"

\* The multiplier of the composite sort key (line 335).
SortKeyBase == 128

\* First id past the vocabulary (lines 283-285).
VocabEnd == vocab_size_special + vocab_size_note + vocab_size_velocity + vocab_size_time

-----------------------------------------------------------------------------
(* Bounds of the checked inputs.                                           *)

\* Longest token sequence handed to relative_tokens_to_notes.
MaxLen == 4
\* NOTE tokens are offered for the pitches 0..MaxPitch-1.
MaxPitch == 2

Min(a, b) == IF a <= b THEN a ELSE b
Max(a, b) == IF a >= b THEN a ELSE b

SeqsUpTo(S, n) == UNION {[1..k -> S] : k \in 1..n}

-----------------------------------------------------------------------------
(* Token Codec                                                             *)

\* Lines 150-163 with `>` in place of `>=`.
_convert_id_to_token_strict(token, time_idx_offset) ==
    IF token > vocab_size_special + vocab_size_note + vocab_size_velocity
    THEN <<TOKEN_TIME,
           (token - (vocab_size_special + vocab_size_note + vocab_size_velocity)) + time_idx_offset>>
    ELSE IF token > vocab_size_special + vocab_size_note
    THEN <<TOKEN_VELOCITY, token - (vocab_size_special + vocab_size_note)>>
    ELSE IF token > vocab_size_special
    THEN <<TOKEN_NOTE, token - vocab_size_special>>
    ELSE <<TOKEN_SPECIAL, token>>

\* Lines 150-163 with a type of its own for the ids outside the four ranges.
_convert_id_to_token_checked(token, time_idx_offset) ==
    IF token < 0 \/ token >= vocab_size_special + vocab_size_note + vocab_size_velocity
                                 + vocab_size_time
    THEN <<"TOKEN_OTHER", token>>
    ELSE IF token >= vocab_size_special + vocab_size_note + vocab_size_velocity
    THEN <<TOKEN_TIME,
           (token - (vocab_size_special + vocab_size_note + vocab_size_velocity)) + time_idx_offset>>
    ELSE IF token >= vocab_size_special + vocab_size_note
    THEN <<TOKEN_VELOCITY, token - (vocab_size_special + vocab_size_note)>>
    ELSE IF token >= vocab_size_special
    THEN <<TOKEN_NOTE, token - vocab_size_special>>
    ELSE <<TOKEN_SPECIAL, token>>

\* Lines 150-165.
_convert_id_to_token(token, time_idx_offset) ==
    IF token >= vocab_size_special + vocab_size_note + vocab_size_velocity
    THEN <<TOKEN_TIME,
           (token - (vocab_size_special + vocab_size_note + vocab_size_velocity)) + time_idx_offset>>
    ELSE IF token >= vocab_size_special + vocab_size_note
    THEN <<TOKEN_VELOCITY, token - (vocab_size_special + vocab_size_note)>>
    ELSE IF token >= vocab_size_special
    THEN <<TOKEN_NOTE, token - vocab_size_special>>
    ELSE <<TOKEN_SPECIAL, token>>

\* Lines 180-189 with TIME tokens placed at the start of the VELOCITY range.
_convert_token_to_id_overlapping(token, token_type) ==
    IF token_type = TOKEN_TIME
    THEN vocab_size_special + vocab_size_note + token
    ELSE IF token_type = TOKEN_VELOCITY
    THEN vocab_size_special + vocab_size_note + token
    ELSE IF token_type = TOKEN_NOTE
    THEN vocab_size_special + token
    ELSE IF token_type = TOKEN_SPECIAL
    THEN token
    ELSE -1

\* Lines 169-189.
_convert_token_to_id(token, token_type) ==
    IF token_type = TOKEN_TIME
    THEN vocab_size_special + vocab_size_note + vocab_size_velocity + token
    ELSE IF token_type = TOKEN_VELOCITY
    THEN vocab_size_special + vocab_size_note + token
    ELSE IF token_type = TOKEN_NOTE
    THEN vocab_size_special + token
    ELSE IF token_type = TOKEN_SPECIAL
    THEN token
    ELSE -1

\* Token ids offered to the decoder: pad (0) and eos (1), NOTE tokens of the
\* first MaxPitch pitches, every VELOCITY token, TIME shifts of 1 and 3, and
\* the first id past the vocabulary.
SpecialIds == {_convert_token_to_id(v, TOKEN_SPECIAL) : v \in {0, 1}}
NoteIds == {_convert_token_to_id(p, TOKEN_NOTE) : p \in 0..(MaxPitch - 1)}
VelocityIds == {_convert_token_to_id(v, TOKEN_VELOCITY) : v \in 0..(vocab_size_velocity - 1)}
TimeIds == {_convert_token_to_id(t, TOKEN_TIME) : t \in {1, 3}}
TokenIds == SpecialIds \cup NoteIds \cup VelocityIds \cup TimeIds \cup {VocabEnd}

\* Token sequences of 1..MaxLen ids; the id past the vocabulary is offered in
\* the first two positions.
TokenSeqs == {s \in SeqsUpTo(TokenIds, MaxLen) : \A i \in 3..Len(s) : s[i] # VocabEnd}

\* <<start_idx, cutoff_time_idx>> pairs: no cutoff, a cutoff ahead of the
\* start, and a cutoff behind the start.
SegmentInputs == {<<0, None>>, <<2, None>>, <<0, 2>>, <<2, 1>>}

-----------------------------------------------------------------------------
(* Segment Decoder                                                         *)

\* token_time_to_note without the clamp of lines 49-50.
token_time_to_note_unclamped(number, cutoff, cur) == cur + number

token_time_to_note(number, cutoff, cur) ==
    IF cutoff # None THEN Min(cur + number, cutoff) ELSE cur + number

\* note_onsets_ready (line 295) is a list of vocab_size_note + 1 slots, each
\* None or an onset index. The model keeps the slots that are not None: a
\* function from those pitches to their onsets; OnsetAt reads a slot.
NoOnsets == [p \in {} |-> None]

OnsetAt(onsets, pitch) == IF pitch \in DOMAIN onsets THEN onsets[pitch] ELSE None

\* note_onsets_ready[pitch] = value
SetOnset(onsets, pitch, value) ==
    [q \in (IF value = None THEN DOMAIN onsets \ {pitch} ELSE DOMAIN onsets \cup {pitch}) |->
        IF q = pitch THEN value ELSE onsets[q]]

\* token_note_to_note emitting the note with the current velocity instead of
\* the default one.
token_note_to_note_current_velocity(number, velocity, default_velocity, onsets, cur, ns) ==
    IF OnsetAt(onsets, number) # None
    THEN IF OnsetAt(onsets, number) < cur
         THEN [onsets |-> SetOnset(onsets, number, IF velocity = 0 THEN None ELSE cur),
               notes  |-> Append(ns, <<OnsetAt(onsets, number), cur, number, velocity>>)]
         ELSE [onsets |-> onsets, notes |-> ns]
    ELSE [onsets |-> SetOnset(onsets, number, cur), notes |-> ns]

\* token_note_to_note with line 64 outside the test of line 59: a NOTE token
\* at the index of its own onset clears or rewrites the slot without a note.
token_note_to_note_dedent(number, velocity, default_velocity, onsets, cur, ns) ==
    IF OnsetAt(onsets, number) # None
    THEN [onsets |-> SetOnset(onsets, number, IF velocity = 0 THEN None ELSE cur),
          notes  |-> IF OnsetAt(onsets, number) < cur
                     THEN Append(ns, <<OnsetAt(onsets, number), cur, number, default_velocity>>)
                     ELSE ns]
    ELSE [onsets |-> SetOnset(onsets, number, cur), notes |-> ns]

\* token_note_to_note with line 63 always giving None: a closing NOTE token
\* never starts a new onset.
token_note_to_note_never_reopens(number, velocity, default_velocity, onsets, cur, ns) ==
    IF OnsetAt(onsets, number) # None
    THEN IF OnsetAt(onsets, number) < cur
         THEN [onsets |-> SetOnset(onsets, number, None),
               notes  |-> Append(ns, <<OnsetAt(onsets, number), cur, number, default_velocity>>)]
         ELSE [onsets |-> onsets, notes |-> ns]
    ELSE [onsets |-> SetOnset(onsets, number, cur), notes |-> ns]

\* token_note_to_note without lines 63-64: a closing NOTE token leaves the
\* onset in its slot.
token_note_to_note_keeps_onset(number, velocity, default_velocity, onsets, cur, ns) ==
    IF OnsetAt(onsets, number) # None
    THEN IF OnsetAt(onsets, number) < cur
         THEN [onsets |-> onsets,
               notes  |-> Append(ns, <<OnsetAt(onsets, number), cur, number, default_velocity>>)]
         ELSE [onsets |-> onsets, notes |-> ns]
    ELSE [onsets |-> SetOnset(onsets, number, cur), notes |-> ns]

\* token_note_to_note with line 66 opening the onset only at a non-zero velocity.
token_note_to_note_opens_when_loud(number, velocity, default_velocity, onsets, cur, ns) ==
    IF OnsetAt(onsets, number) # None
    THEN IF OnsetAt(onsets, number) < cur
         THEN [onsets |-> SetOnset(onsets, number, IF velocity = 0 THEN None ELSE cur),
               notes  |-> Append(ns, <<OnsetAt(onsets, number), cur, number, default_velocity>>)]
         ELSE [onsets |-> onsets, notes |-> ns]
    ELSE [onsets |-> IF velocity = 0 THEN onsets ELSE SetOnset(onsets, number, cur),
          notes  |-> ns]

\* Returns the updated pair (note_onsets_ready, notes); the Python function
\* mutates both lists in place.
token_note_to_note(number, velocity, default_velocity, onsets, cur, ns) ==
    IF OnsetAt(onsets, number) # None
    THEN IF OnsetAt(onsets, number) < cur
         THEN [onsets |-> SetOnset(onsets, number, IF velocity = 0 THEN None ELSE cur),
               notes  |-> Append(ns, <<OnsetAt(onsets, number), cur, number, default_velocity>>)]
         ELSE [onsets |-> onsets, notes |-> ns]
    ELSE [onsets |-> SetOnset(onsets, number, cur), notes |-> ns]

\* Lines 283-286 with `==` in place of `>=`.
DropFenceOnlyAtVocabEnd(toks) ==
    IF toks[1] = VocabEnd THEN Tail(toks) ELSE toks

\* Lines 283-286: a first token at or past the end of the vocabulary is dropped.
DropFence(toks) ==
    IF toks[1] >= VocabEnd THEN Tail(toks) ELSE toks

\* ForceClosed with line 326 taking the cutoff as it is (no onset + 1).
RECURSIVE ForceClosedAtCutoff(_, _, _, _)
ForceClosedAtCutoff(pitch, onsets, cur, cutoff) ==
    LET pending == {q \in DOMAIN onsets : q >= pitch /\ q <= vocab_size_note}
    IN IF pending = {} THEN <<>>
       ELSE LET q == CHOOSE m \in pending : \A x \in pending : m <= x
                c == IF cutoff = None THEN onsets[q] + 1 ELSE cutoff
            IN <<<<onsets[q], Max(cur, c), q, DEFAULT_VELOCITY>>>>
                  \o ForceClosedAtCutoff(q + 1, onsets, cur, cutoff)

\* ForceClosed with line 328 ignoring the cursor.
RECURSIVE ForceClosedIgnoringCursor(_, _, _, _)
ForceClosedIgnoringCursor(pitch, onsets, cur, cutoff) ==
    LET pending == {q \in DOMAIN onsets : q >= pitch /\ q <= vocab_size_note}
    IN IF pending = {} THEN <<>>
       ELSE LET q == CHOOSE m \in pending : \A x \in pending : m <= x
                c == IF cutoff = None THEN onsets[q] + 1
                     ELSE Max(cutoff, onsets[q] + 1)
            IN <<<<onsets[q], c, q, DEFAULT_VELOCITY>>>>
                  \o ForceClosedIgnoringCursor(q + 1, onsets, cur, cutoff)

\* Lines 320-329 for the pitches pitch..vocab_size_note, in ascending order
\* (slots holding None are skipped).
RECURSIVE ForceClosed(_, _, _, _)
ForceClosed(pitch, onsets, cur, cutoff) ==
    LET pending == {q \in DOMAIN onsets : q >= pitch /\ q <= vocab_size_note}
    IN IF pending = {} THEN <<>>
       ELSE LET q == CHOOSE m \in pending : \A x \in pending : m <= x
                c == IF cutoff = None THEN onsets[q] + 1
                     ELSE Max(cutoff, onsets[q] + 1)
            IN <<<<onsets[q], Max(cur, c), q, DEFAULT_VELOCITY>>>>
                  \o ForceClosed(q + 1, onsets, cur, cutoff)

\* Line 335.
note_order(n) == n[1] * SortKeyBase + n[2]

\* Lines 334-336 without the reordering.
ArgsortResultsUnsorted(ns) == {ns}

\* Lines 334-336: notes[note_order.argsort()]. numpy's default argsort kind
\* is "quicksort", which is not stable: any arrangement ascending in the key
\* can be returned.
ArgsortResults(ns) ==
    {[i \in 1..Len(ns) |-> ns[p[i]]] :
        p \in {q \in [1..Len(ns) -> 1..Len(ns)] :
                  /\ \A i, j \in 1..Len(ns) : i # j => q[i] # q[j]
                  /\ \A i \in 1..(Len(ns) - 1) :
                        note_order(ns[q[i]]) <= note_order(ns[q[i + 1]])}}

\* The loop of lines 297-318 from word i on, as a function of the decoder
\* state: the state in which the loop ends.
RECURSIVE ScanFrom(_, _, _, _, _, _, _)
ScanFrom(ws, i, cur, velocity, onsets, ns, cutoff) ==
    IF i > Len(ws) THEN [cur |-> cur, onsets |-> onsets, notes |-> ns]
    ELSE IF ws[i][1] = TOKEN_SPECIAL
    THEN IF ws[i][2] = 1
         THEN [cur |-> cur, onsets |-> onsets, notes |-> ns]
         ELSE ScanFrom(ws, i + 1, cur, velocity, onsets, ns, cutoff)
    ELSE IF ws[i][1] = TOKEN_TIME
    THEN ScanFrom(ws, i + 1, token_time_to_note(ws[i][2], cutoff, cur), velocity, onsets, ns, cutoff)
    ELSE IF ws[i][1] = TOKEN_VELOCITY
    THEN ScanFrom(ws, i + 1, cur, ws[i][2], onsets, ns, cutoff)
    ELSE LET r == token_note_to_note(ws[i][2], velocity, DEFAULT_VELOCITY, onsets, cur, ns)
         IN ScanFrom(ws, i + 1, cur, velocity, r.onsets, r.notes, cutoff)

\* Lines 283-329: the note list before it is sorted.
UnsortedNotes(toks, start, cutoff) ==
    LET kept == DropFence(toks)
        ws == [i \in 1..Len(kept) |-> _convert_id_to_token(kept[i], 0)]
        s == ScanFrom(ws, 1, start, 0, NoOnsets, <<>>, cutoff)
    IN s.notes \o ForceClosed(0, s.onsets, s.cur, cutoff)

\* Lines 271-337: the arrays relative_tokens_to_notes can return.
relative_tokens_to_notes(toks, start, cutoff) ==
    ArgsortResults(UnsortedNotes(toks, start, cutoff))

-----------------------------------------------------------------------------

\* relative_tokens_to_notes has been called with some tokens, start index
\* and cutoff.
SegmentInit ==
    /\ tokens \in TokenSeqs
    /\ \E io \in SegmentInputs : start_idx = io[1] /\ cutoff_time_idx = io[2]
    /\ words = <<>>
    /\ pos = 0
    /\ pc = "begin"
    /\ current_idx = 0
    /\ current_velocity = 0
    /\ note_onsets_ready = NoOnsets
    /\ notes = <<>>
    /\ result = <<>>
    /\ opened = <<>>

\* No call of __call__ is in progress.
CallIdle ==
    /\ attention_masks_present = FALSE
    /\ attention_mask0 = <<>>
    /\ n_token_rows = 0
    /\ token_eos = <<>>
    /\ n_beatsteps = 0
    /\ n_extrapolated = 0
    /\ call_pc = "idle"
    /\ batch_idx = <<>>
    /\ index = 0
    /\ row_start_idx = 0
    /\ decoded = <<>>
    /\ outcome = "none"
    /\ notes_list = <<>>

\* No call of relative_batch_tokens_to_notes is in progress.
BatchIdle ==
    /\ batch_tokens = <<>>
    /\ beat_offset_idx = 0
    /\ bars_per_batch = 0
    /\ batch_cutoff_time_idx = 0
    /\ batch_index = 0
    /\ batch_notes_none = TRUE
    /\ batch_notes = <<>>
    /\ batch_pc = "idle"
    /\ batch_result = <<>>
    /\ row_calls = <<>>

\* No conversion is in progress.
CodecIdle ==
    /\ codec_pc = "idle"
    /\ codec_token = 0
    /\ codec_token_type = TOKEN_SPECIAL
    /\ codec_id = 0
    /\ codec_offset = 0
    /\ codec_out = <<>>

\* No conversion of notes to Midi is in progress.
MidiIdle ==
    /\ midi_pc = "idle"
    /\ midi_notes = <<>>
    /\ beatsteps = <<>>
    /\ extrapolated_beatstep = <<>>
    /\ mask_valid = 0
    /\ beatstep = <<>>
    /\ offset_sec = 0
    /\ midi_pos = 0
    /\ new_notes = <<>>
    /\ instrument_notes = <<>>
    /\ shifted_notes = <<>>
    /\ midi_outcome = "none"

Init == SegmentInit /\ CallIdle /\ BatchIdle /\ CodecIdle /\ MidiIdle

\* Where the loop of line 297 goes after the word at position i.
AfterWord(i) == IF i >= Len(words) THEN "close" ELSE "scan"

\* Lines 283-296.
Begin ==
    /\ pc = "begin"
    /\ LET toks == DropFence(tokens)
       IN /\ words' = [i \in 1..Len(toks) |-> _convert_id_to_token(toks[i], 0)]
          /\ pc' = IF Len(toks) = 0 THEN "close" ELSE "scan"
    /\ pos' = 1
    /\ current_idx' = start_idx
    /\ current_velocity' = 0
    /\ note_onsets_ready' = NoOnsets
    /\ notes' = <<>>
    /\ UNCHANGED <<callvars, batchvars, codecvars, midivars>>
    /\ UNCHANGED <<tokens, start_idx, cutoff_time_idx, result, opened>>

\* ScanSpecial without the break of line 300.
ScanSpecialNoBreak ==
    /\ pc = "scan"
    /\ words[pos][1] = TOKEN_SPECIAL
    /\ pc' = AfterWord(pos)
    /\ pos' = pos + 1
    /\ UNCHANGED <<callvars, batchvars, codecvars, midivars>>
    /\ UNCHANGED <<tokens, start_idx, cutoff_time_idx, words, current_idx,
                   current_velocity, note_onsets_ready, notes, result, opened>>

\* ScanSpecial with the end marker returning the collected notes at once,
\* past the loop of lines 320-329.
ScanSpecialSkipsForceClose ==
    /\ pc = "scan"
    /\ words[pos][1] = TOKEN_SPECIAL
    /\ pc' = IF words[pos][2] = 1 THEN "sort" ELSE AfterWord(pos)
    /\ pos' = pos + 1
    /\ UNCHANGED <<callvars, batchvars, codecvars, midivars>>
    /\ UNCHANGED <<tokens, start_idx, cutoff_time_idx, words, current_idx,
                   current_velocity, note_onsets_ready, notes, result, opened>>

\* ScanSpecial leaving the loop at every SPECIAL word, whatever its value.
ScanSpecialBreakOnAny ==
    /\ pc = "scan"
    /\ words[pos][1] = TOKEN_SPECIAL
    /\ pc' = "close"
    /\ pos' = pos + 1
    /\ UNCHANGED <<callvars, batchvars, codecvars, midivars>>
    /\ UNCHANGED <<tokens, start_idx, cutoff_time_idx, words, current_idx,
                   current_velocity, note_onsets_ready, notes, result, opened>>

\* Lines 298-300.
ScanSpecial ==
    /\ pc = "scan"
    /\ words[pos][1] = TOKEN_SPECIAL
    /\ pc' = IF words[pos][2] = 1 THEN "close" ELSE AfterWord(pos)
    /\ pos' = pos + 1
    /\ UNCHANGED <<callvars, batchvars, codecvars, midivars>>
    /\ UNCHANGED <<tokens, start_idx, cutoff_time_idx, words, current_idx,
                   current_velocity, note_onsets_ready, notes, result, opened>>

\* Lines 301-304.
ScanTime ==
    /\ pc = "scan"
    /\ words[pos][1] = TOKEN_TIME
    /\ current_idx' = token_time_to_note(words[pos][2], cutoff_time_idx, current_idx)
    /\ pc' = AfterWord(pos)
    /\ pos' = pos + 1
    /\ UNCHANGED <<callvars, batchvars, codecvars, midivars>>
    /\ UNCHANGED <<tokens, start_idx, cutoff_time_idx, words,
                   current_velocity, note_onsets_ready, notes, result, opened>>

\* Lines 305-306.
ScanVelocity ==
    /\ pc = "scan"
    /\ words[pos][1] = TOKEN_VELOCITY
    /\ current_velocity' = words[pos][2]
    /\ pc' = AfterWord(pos)
    /\ pos' = pos + 1
    /\ UNCHANGED <<callvars, batchvars, codecvars, midivars>>
    /\ UNCHANGED <<tokens, start_idx, cutoff_time_idx, words,
                   current_idx, note_onsets_ready, notes, result, opened>>

\* Lines 308-318: the last `elif` of the loop and its `else`, which raises
\* ValueError("Token type not understood!") for a word of no known type.
ScanNote ==
    /\ pc = "scan"
    /\ words[pos][1] \notin {TOKEN_SPECIAL, TOKEN_TIME, TOKEN_VELOCITY}
    /\ IF words[pos][1] = TOKEN_NOTE
       THEN /\ LET r == token_note_to_note(words[pos][2], current_velocity, DEFAULT_VELOCITY,
                                           note_onsets_ready, current_idx, notes)
                   p == words[pos][2]
               IN /\ note_onsets_ready' = r.onsets
                  /\ notes' = r.notes
                  /\ opened' = IF OnsetAt(r.onsets, p) # None
                                  /\ OnsetAt(r.onsets, p) # OnsetAt(note_onsets_ready, p)
                               THEN Append(opened, <<p, OnsetAt(r.onsets, p)>>)
                               ELSE opened
            /\ pc' = AfterWord(pos)
            /\ pos' = pos + 1
       ELSE /\ pc' = "error"
            /\ UNCHANGED <<note_onsets_ready, notes, opened, pos>>
    /\ UNCHANGED <<callvars, batchvars, codecvars, midivars>>
    /\ UNCHANGED <<tokens, start_idx, cutoff_time_idx, words,
                   current_idx, current_velocity, result>>

\* Lines 320-329.
ForceClose ==
    /\ pc = "close"
    /\ notes' = notes \o ForceClosed(0, note_onsets_ready, current_idx, cutoff_time_idx)
    /\ pc' = "sort"
    /\ UNCHANGED <<callvars, batchvars, codecvars, midivars>>
    /\ UNCHANGED <<tokens, start_idx, cutoff_time_idx, words, pos, current_idx,
                   current_velocity, note_onsets_ready, result, opened>>

\* Lines 331-337.
SortNotes ==
    /\ pc = "sort"
    /\ result' \in ArgsortResults(notes)
    /\ pc' = "done"
    /\ UNCHANGED <<callvars, batchvars, codecvars, midivars>>
    /\ UNCHANGED <<tokens, start_idx, cutoff_time_idx, words, pos, current_idx,
                   current_velocity, note_onsets_ready, notes, opened>>

Next ==
    \/ Begin
    \/ ScanSpecial
    \/ ScanTime
    \/ ScanVelocity
    \/ ScanNote
    \/ ForceClose
    \/ SortNotes

Spec == Init /\ [][Next]_vars

\* Token ids over the whole integer range: an id below 0, the lowest and the
\* highest NOTE id, the VELOCITY ids, a TIME shift, and the two ids that
\* follow the vocabulary.
WideTokenIds ==
    {0 - 1,
     _convert_token_to_id(0, TOKEN_NOTE),
     _convert_token_to_id(vocab_size_note - 1, TOKEN_NOTE),
     _convert_token_to_id(0, TOKEN_VELOCITY),
     _convert_token_to_id(1, TOKEN_VELOCITY),
     _convert_token_to_id(1, TOKEN_TIME),
     VocabEnd,
     VocabEnd + 1}

\* relative_tokens_to_notes has been called with any sequence of those ids.
WideInit ==
    /\ tokens \in SeqsUpTo(WideTokenIds, MaxLen)
    /\ \E io \in SegmentInputs : start_idx = io[1] /\ cutoff_time_idx = io[2]
    /\ words = <<>>
    /\ pos = 0
    /\ pc = "begin"
    /\ current_idx = 0
    /\ current_velocity = 0
    /\ note_onsets_ready = NoOnsets
    /\ notes = <<>>
    /\ result = <<>>
    /\ opened = <<>>
    /\ CallIdle
    /\ BatchIdle
    /\ CodecIdle
    /\ MidiIdle

WideSpec == WideInit /\ [][Next]_vars

-----------------------------------------------------------------------------
(* Request Orchestrator: Pop2PianoTokenizer.__call__ (lines 393-508).      *)
(* Arrays indexed by row are functions on 0..n-1, as in Python.            *)

\* Most rows of token_ids (and of the attention mask) in a call.
MaxRows == 8
\* Most beatstep arrays in a call.
MaxExamples == 3
\* Most notes one example's container holds.
MaxExampleNotes == 1

Size(f) == Cardinality(DOMAIN f)

\* The elements of a finite set of integers, ascending (np.where, line 461).
RECURSIVE Ascending(_)
Ascending(S) ==
    IF S = {} THEN <<>>
    ELSE LET m == CHOOSE x \in S : \A y \in S : x <= y
         IN <<m>> \o Ascending(S \ {m})

\* Rows of the mask whose first column is 0 (lines 434, 461).
ZeroRows(mask0) == {r \in DOMAIN mask0 : mask0[r] = 0}

\* ValidationFails without the count of zero rows (line 434).
ValidationFailsWithoutCount(present, mask0, n_rows, n_beat, n_extra) ==
    IF ~present /\ n_beat > 1 THEN TRUE
    ELSE IF present
    THEN n_beat # n_extra \/ Size(mask0) # n_rows
    ELSE n_beat # 1 \/ n_extra # 1

\* ValidationFails accepting any number of arrays when no mask is given.
ValidationFailsMaskOnly(present, mask0, n_rows, n_beat, n_extra) ==
    IF present
    THEN \/ Cardinality(ZeroRows(mask0)) # n_beat \/ n_beat # n_extra
         \/ Size(mask0) # n_rows
    ELSE FALSE

\* Lines 425-457: whether one of the four ValueErrors is raised.
ValidationFails(present, mask0, n_rows, n_beat, n_extra) ==
    IF ~present /\ n_beat > 1 THEN TRUE
    ELSE IF present
    THEN \/ Cardinality(ZeroRows(mask0)) # n_beat \/ n_beat # n_extra
         \/ Size(mask0) # n_rows
    ELSE n_beat # 1 \/ n_extra # 1

\* Lines 459-463.
BatchIdx(present, mask0, n_rows) ==
    IF present THEN Ascending(ZeroRows(mask0)) ELSE <<n_rows>>

\* token_ids[start:end] (line 469): the rows of the slice.
SliceRows(n_rows, start, end) == {r \in 0..(n_rows - 1) : start <= r /\ r < end}

\* Line 503.
NextStart(start, end) == start + end + 1

\* Contents of token_ids: a row that is a separator (its mask entry is 0) is a
\* zero array and holds no eos id; every other row holds its last eos id in
\* column 0 or 1, except at most one row d that holds none.
EosInputs(present, mask0, n_rows) ==
    {[r \in 0..(n_rows - 1) |->
        IF r = d \/ (present /\ r \in ZeroRows(mask0)) THEN None ELSE r % 2] :
     d \in 0..n_rows}

\* Line 471 with np.min in place of np.max.
KeptColumnsUpToFirst(eos_cols) ==
    0..(CHOOSE c \in eos_cols : \A x \in eos_cols : c <= x)

\* Line 471: the columns [: np.max(eos columns) + 1] of the slice.
KeptColumns(eos_cols) ==
    0..(CHOOSE c \in eos_cols : \A x \in eos_cols : x <= c)

MaskInputs == UNION {[0..(m - 1) -> {0, 1}] : m \in 1..MaxRows}

\* No call of relative_tokens_to_notes is in progress.
SegmentIdle ==
    /\ tokens = <<>>
    /\ start_idx = 0
    /\ cutoff_time_idx = None
    /\ words = <<>>
    /\ pos = 0
    /\ pc = "idle"
    /\ current_idx = 0
    /\ current_velocity = 0
    /\ note_onsets_ready = NoOnsets
    /\ notes = <<>>
    /\ result = <<>>
    /\ opened = <<>>

\* __call__ has been called with some token_ids and feature_extractor_output.
CallInit ==
    /\ SegmentIdle
    /\ BatchIdle
    /\ CodecIdle
    /\ MidiIdle
    /\ notes_list = <<>>
    /\ attention_masks_present \in BOOLEAN
    /\ attention_mask0 \in (IF attention_masks_present THEN MaskInputs ELSE {<<>>})
    /\ n_token_rows \in (IF attention_masks_present
                         THEN {Size(attention_mask0), Size(attention_mask0) + 1}
                         ELSE 1..MaxRows)
    /\ token_eos \in EosInputs(attention_masks_present, attention_mask0, n_token_rows)
    /\ n_beatsteps \in 0..MaxExamples
    /\ n_extrapolated \in {n_beatsteps, n_beatsteps + 1}
    /\ call_pc = "validate"
    /\ batch_idx = <<>>
    /\ index = 0
    /\ row_start_idx = 0
    /\ decoded = <<>>
    /\ outcome = "none"

\* Lines 417-467.
Validate ==
    /\ call_pc = "validate"
    /\ IF ValidationFails(attention_masks_present, attention_mask0, n_token_rows,
                          n_beatsteps, n_extrapolated)
       THEN /\ outcome' = "validation_error"
            /\ call_pc' = "done"
            /\ UNCHANGED batch_idx
       ELSE /\ batch_idx' = BatchIdx(attention_masks_present, attention_mask0, n_token_rows)
            /\ call_pc' = "loop"
            /\ UNCHANGED outcome
    /\ index' = 0
    /\ row_start_idx' = 0
    /\ decoded' = <<>>
    /\ notes_list' = <<>>
    /\ UNCHANGED <<segvars, batchvars, codecvars, midivars>>
    /\ UNCHANGED <<attention_masks_present, attention_mask0, n_token_rows, token_eos,
                   n_beatsteps, n_extrapolated>>

\* One iteration of the loop of lines 468-503. np.max over no eos position
\* (line 471) raises, and so does an index past the beatstep arrays (lines
\* 472-473). The token contents of the rows are not part of this
\* specification, so the number of notes the example's container holds (lines
\* 497-500) is any count up to MaxExampleNotes; each appended note records the
\* iteration and the rows it was decoded from.
DecodeExample ==
    /\ call_pc = "loop"
    /\ index < Len(batch_idx)
    /\ LET end_idx == batch_idx[index + 1]
           rows == SliceRows(n_token_rows, row_start_idx, end_idx)
           eos_cols == {token_eos[r] : r \in rows} \ {None}
       IN IF eos_cols = {} \/ index >= n_beatsteps \/ index >= n_extrapolated
          THEN /\ outcome' = "crash"
               /\ call_pc' = "done"
               /\ UNCHANGED <<index, row_start_idx, decoded, notes_list>>
          ELSE /\ \E n \in 0..MaxExampleNotes :
                      notes_list' = notes_list \o
                          [j \in 1..n |-> [example |-> index, rows |-> rows]]
               /\ decoded' = Append(decoded,
                      [rows |-> rows,
                       columns |-> KeptColumns(eos_cols),
                       beatsteps |-> index])
               /\ row_start_idx' = NextStart(row_start_idx, end_idx)
               /\ index' = index + 1
               /\ UNCHANGED <<outcome, call_pc>>
    /\ UNCHANGED <<segvars, batchvars, codecvars, midivars>>
    /\ UNCHANGED <<attention_masks_present, attention_mask0, n_token_rows, token_eos,
                   n_beatsteps, n_extrapolated, batch_idx>>

\* Lines 505-508.
Return ==
    /\ call_pc = "loop"
    /\ index = Len(batch_idx)
    /\ outcome' = "returned"
    /\ call_pc' = "done"
    /\ UNCHANGED <<segvars, batchvars, codecvars, midivars>>
    /\ UNCHANGED <<attention_masks_present, attention_mask0, n_token_rows, token_eos,
                   n_beatsteps, n_extrapolated, batch_idx, index, row_start_idx, decoded,
                   notes_list>>

CallNext ==
    \/ Validate
    \/ DecodeExample
    \/ Return

CallSpec == CallInit /\ [][CallNext]_vars

\* Length of the token sequences whose notes span more than 128 time steps.
MaxSortLen == 7

\* Token ids of two pitches, a short and the longest TIME shift, with the end
\* marker and a VELOCITY token offered in first position only.
SortTokenIds ==
    {_convert_token_to_id(0, TOKEN_NOTE),
     _convert_token_to_id(1, TOKEN_NOTE),
     _convert_token_to_id(1, TOKEN_TIME),
     _convert_token_to_id(vocab_size_time - 1, TOKEN_TIME)}

SortTokenSeqs ==
    {s \in [1..MaxSortLen ->
               SortTokenIds \cup {_convert_token_to_id(1, TOKEN_SPECIAL),
                                  _convert_token_to_id(1, TOKEN_VELOCITY)}] :
        \A i \in 2..MaxSortLen : s[i] \in SortTokenIds}

\* relative_tokens_to_notes has been called with one of those sequences, from
\* start index 0, without a cutoff or with cutoff 2.
SortInit ==
    /\ tokens \in SortTokenSeqs
    /\ start_idx = 0
    /\ cutoff_time_idx \in {None, 2}
    /\ words = <<>>
    /\ pos = 0
    /\ pc = "begin"
    /\ current_idx = 0
    /\ current_velocity = 0
    /\ note_onsets_ready = NoOnsets
    /\ notes = <<>>
    /\ result = <<>>
    /\ opened = <<>>
    /\ CallIdle
    /\ BatchIdle
    /\ CodecIdle
    /\ MidiIdle

SortSpec == SortInit /\ [][Next]_vars

-----------------------------------------------------------------------------
(* Token Codec as a state machine: a value and type are encoded and the id *)
(* decoded again, or an id is decoded directly.                            *)

\* How far below 0 and past the vocabulary the decoded ids reach.
IdMargin == 3

\* A token_type that is none of the encoder's four.
TOKEN_OTHER == "TOKEN_OTHER"

\* The values of a type: [0, size of its range).
ValuesOf(token_type) ==
    IF token_type = TOKEN_TIME THEN 0..(vocab_size_time - 1)
    ELSE IF token_type = TOKEN_VELOCITY THEN 0..(vocab_size_velocity - 1)
    ELSE IF token_type = TOKEN_NOTE THEN 0..(vocab_size_note - 1)
    ELSE IF token_type = TOKEN_SPECIAL THEN 0..(vocab_size_special - 1)
    ELSE {0}

TokenTypes == {TOKEN_SPECIAL, TOKEN_NOTE, TOKEN_VELOCITY, TOKEN_TIME}

\* The time_idx_offset arguments: 0, as relative_tokens_to_notes passes (line
\* 285), and another one.
TimeOffsets == {0, 7}

\* Either _convert_token_to_id is about to be called with a value of some
\* type, or _convert_id_to_token with some integer id.
CodecInit ==
    /\ SegmentIdle
    /\ CallIdle
    /\ BatchIdle
    /\ MidiIdle
    /\ codec_out = <<>>
    /\ \/ /\ codec_pc = "encode"
          /\ codec_token_type \in TokenTypes \cup {TOKEN_OTHER}
          /\ codec_token \in ValuesOf(codec_token_type)
          /\ codec_id = None
          /\ codec_offset = 0
       \/ /\ codec_pc = "decode"
          /\ codec_token_type = "none"
          /\ codec_token = None
          /\ codec_id \in (0 - IdMargin)..(VocabEnd + IdMargin - 1)
          /\ codec_offset \in TimeOffsets

\* Lines 169-189; the id is then handed to _convert_id_to_token.
Encode ==
    /\ codec_pc = "encode"
    /\ codec_id' = _convert_token_to_id(codec_token, codec_token_type)
    /\ codec_offset' \in TimeOffsets
    /\ codec_pc' = "decode"
    /\ UNCHANGED <<codec_token, codec_token_type, codec_out>>
    /\ UNCHANGED <<segvars, callvars, batchvars, midivars>>

\* Lines 139-165.
Decode ==
    /\ codec_pc = "decode"
    /\ codec_out' = _convert_id_to_token(codec_id, codec_offset)
    /\ codec_pc' = "done"
    /\ UNCHANGED <<codec_token, codec_token_type, codec_id, codec_offset>>
    /\ UNCHANGED <<segvars, callvars, batchvars, midivars>>

CodecNext ==
    \/ Encode
    \/ Decode

CodecSpec == CodecInit /\ [][CodecNext]_vars

-----------------------------------------------------------------------------
(* Batch Stitcher: relative_batch_tokens_to_notes (lines 191-233)          *)

\* Most rows of `tokens` in a call of relative_batch_tokens_to_notes.
MaxBatchRows == 3

\* Line 216 without the four beats of a bar.
_start_idx_in_bars(beat_offset, i, bars) == beat_offset + i * bars

\* Line 216.
_start_idx(beat_offset, i, bars) == beat_offset + i * bars * 4

\* Line 217.
_cutoff_time_idx(cutoff, start) == cutoff + start

\* np.concatenate with its arguments exchanged.
np_concatenate_reversed(a, b) == b \o a

\* Line 229: np.concatenate((notes, _notes), axis=0).
np_concatenate(a, b) == a \o b

\* Rows of three ids: up to three tokens among NOTE 0, NOTE 1 and a shift of
\* nine steps (NOTE 1 in the first column only, NOTE 0 in the third), then the
\* end marker and padding when there is room.
BatchRowIds == {_convert_token_to_id(0, TOKEN_NOTE), _convert_token_to_id(9, TOKEN_TIME)}
BatchRowContents ==
    {c \in SeqsUpTo(BatchRowIds \cup {_convert_token_to_id(1, TOKEN_NOTE)}, 3) :
        /\ \A i \in 2..Len(c) : c[i] \in BatchRowIds
        /\ Len(c) = 3 => c[3] = _convert_token_to_id(0, TOKEN_NOTE)}
PadRow(c) ==
    [i \in 1..3 |->
        IF i <= Len(c) THEN c[i]
        ELSE IF i = Len(c) + 1 THEN _convert_token_to_id(1, TOKEN_SPECIAL)
        ELSE _convert_token_to_id(0, TOKEN_SPECIAL)]
BatchRows == {PadRow(c) : c \in BatchRowContents} \cup {PadRow(<<>>)}

\* <<beat_offset_idx, bars_per_batch, cutoff_time_idx>>: the defaults of
\* relative_batch_tokens_to_midi (lines 239-241), and another offset, bar
\* count and cutoff.
BatchInputs == {<<0, 2, 12>>, <<1, 1, 4>>}

\* relative_batch_tokens_to_notes has been called with some rows.
BatchInit ==
    /\ SegmentIdle
    /\ CallIdle
    /\ CodecIdle
    /\ MidiIdle
    /\ \E n \in 0..MaxBatchRows : batch_tokens \in [1..n -> BatchRows]
    /\ \E io \in BatchInputs :
          /\ beat_offset_idx = io[1]
          /\ bars_per_batch = io[2]
          /\ batch_cutoff_time_idx = io[3]
    /\ batch_index = 0
    /\ batch_notes_none = TRUE
    /\ batch_notes = <<>>
    /\ batch_pc = "loop"
    /\ batch_result = <<>>
    /\ row_calls = <<>>

\* One iteration of the loop of lines 214-229.
DecodeRow ==
    /\ batch_pc = "loop"
    /\ batch_index < Len(batch_tokens)
    /\ LET _tokens == batch_tokens[batch_index + 1]
           start == _start_idx(beat_offset_idx, batch_index, bars_per_batch)
           cutoff == _cutoff_time_idx(batch_cutoff_time_idx, start)
       IN \E _notes \in relative_tokens_to_notes(_tokens, start, cutoff) :
             /\ IF Len(_notes) = 0
                THEN UNCHANGED <<batch_notes_none, batch_notes>>
                ELSE IF batch_notes_none
                THEN /\ batch_notes' = _notes
                     /\ batch_notes_none' = FALSE
                ELSE /\ batch_notes' = np_concatenate(batch_notes, _notes)
                     /\ UNCHANGED batch_notes_none
             /\ row_calls' = Append(row_calls,
                    [start_idx |-> start, cutoff_time_idx |-> cutoff, notes |-> _notes])
    /\ batch_index' = batch_index + 1
    /\ UNCHANGED <<batch_tokens, beat_offset_idx, bars_per_batch, batch_cutoff_time_idx,
                   batch_pc, batch_result>>
    /\ UNCHANGED <<segvars, callvars, codecvars, midivars>>

\* Lines 231-233.
BatchReturn ==
    /\ batch_pc = "loop"
    /\ batch_index = Len(batch_tokens)
    /\ batch_result' = IF batch_notes_none THEN <<>> ELSE batch_notes
    /\ batch_pc' = "done"
    /\ UNCHANGED <<batch_tokens, beat_offset_idx, bars_per_batch, batch_cutoff_time_idx,
                   batch_index, batch_notes_none, batch_notes, row_calls>>
    /\ UNCHANGED <<segvars, callvars, codecvars, midivars>>

BatchNext ==
    \/ DecodeRow
    \/ BatchReturn

BatchSpec == BatchInit /\ [][BatchNext]_vars

-----------------------------------------------------------------------------
(* Note Materializer: notes_to_midi (lines 339-369) as __call__ uses it    *)
(* for one example (lines 472-500), through relative_batch_tokens_to_midi  *)
(* (lines 259-267).                                                        *)

\* Greatest onset or offset index of a note handed to notes_to_midi.
MaxIndex == 3
\* Most notes handed to notes_to_midi.
MaxMidiNotes == 2

\* The outcome of an indexing that raises IndexError; a value v that was read
\* is <<v>>.
IndexError == <<>>

\* beatstep[idx] read as np.take(..., mode="clip") would read it.
beatstep_at_clipped(grid, idx) == <<grid[Min(idx, Len(grid) - 1) + 1]>>

\* Lines 362-363: beatstep[idx] for an index idx >= 0 of a numpy array; an
\* index at or past the length raises IndexError.
beatstep_at(grid, idx) == IF idx < Len(grid) THEN <<grid[idx + 1]>> ELSE IndexError

\* Notes as the decoder returns them: 0 <= onset <= offset.
MidiNotes ==
    {n \in (0..MaxIndex) \X (0..MaxIndex) \X {60} \X {DEFAULT_VELOCITY} : n[1] <= n[2]}

MidiNoteSeqs == {<<>>} \cup SeqsUpTo(MidiNotes, MaxMidiNotes)

\* Extrapolated beatsteps (integer-valued time grids) and raw beatsteps; the
\* first raw beatstep equals the first extrapolated one for some pairs only.
TimeGrids == {<<0, 1, 2>>, <<1, 2, 4>>, <<1, 3, 4, 6>>}
RawBeatsteps == {<<0, 1>>, <<1, 2>>}

\* The elements of s at the positions in I, in order.
RECURSIVE SelectFrom(_, _, _)
SelectFrom(s, I, k) ==
    IF k > Len(s) THEN <<>>
    ELSE (IF k \in I THEN <<s[k]>> ELSE <<>>) \o SelectFrom(s, I, k + 1)

\* __call__ is in its loop with the beatstep arrays of an example and the
\* notes the tokens decode to. mask_valid is the length of the valid prefix
\* of the extrapolated beatstep: its full length without attention masks.
MidiInit ==
    /\ SegmentIdle
    /\ CallIdle
    /\ BatchIdle
    /\ CodecIdle
    /\ midi_pc = "truncate"
    /\ midi_notes \in MidiNoteSeqs
    /\ beatsteps \in RawBeatsteps
    /\ extrapolated_beatstep \in TimeGrids
    /\ mask_valid \in 1..Len(extrapolated_beatstep)
    /\ beatstep = <<>>
    /\ offset_sec = 0
    /\ midi_pos = 0
    /\ new_notes = <<>>
    /\ instrument_notes = <<>>
    /\ shifted_notes = <<>>
    /\ midi_outcome = "none"

\* Lines 472-484: the extrapolated beatstep is cut to its valid prefix. (The
\* raw beatsteps are cut likewise; their first value stays.)
Truncate ==
    /\ midi_pc = "truncate"
    /\ beatstep' = SubSeq(extrapolated_beatstep, 1, mask_valid)
    /\ midi_pc' = "offset"
    /\ UNCHANGED <<midi_notes, beatsteps, extrapolated_beatstep, mask_valid, offset_sec,
                   midi_pos, new_notes, instrument_notes, shifted_notes, midi_outcome>>
    /\ UNCHANGED <<segvars, callvars, batchvars, codecvars>>

\* Lines 259 and 266: offset_sec = beatstep[beat_offset_idx], with the default
\* beat_offset_idx = 0 that __call__ leaves in place (lines 490-495).
TakeOffset ==
    /\ midi_pc = "offset"
    /\ offset_sec' = beatstep_at(beatstep, 0)[1]
    /\ midi_pos' = 1
    /\ midi_pc' = "notes"
    /\ UNCHANGED <<midi_notes, beatsteps, extrapolated_beatstep, mask_valid, beatstep,
                   new_notes, instrument_notes, shifted_notes, midi_outcome>>
    /\ UNCHANGED <<segvars, callvars, batchvars, codecvars>>

\* One iteration of the loop of lines 358-365. The fifth component of a new
\* note is the position of the note it was made from (the identity of the
\* pretty_midi.Note object).
MaterializeNote ==
    /\ midi_pc = "notes"
    /\ midi_pos <= Len(midi_notes)
    /\ LET n == midi_notes[midi_pos]
           start == beatstep_at(beatstep, n[1])
           end == beatstep_at(beatstep, n[2])
       IN IF start = IndexError \/ end = IndexError
          THEN /\ midi_outcome' = "index_error"
               /\ midi_pc' = "done"
               /\ UNCHANGED <<new_notes, midi_pos>>
          ELSE /\ new_notes' = Append(new_notes,
                      <<start[1] - offset_sec, end[1] - offset_sec, n[3], n[4], midi_pos>>)
               /\ midi_pos' = midi_pos + 1
               /\ UNCHANGED <<midi_outcome, midi_pc>>
    /\ UNCHANGED <<midi_notes, beatsteps, extrapolated_beatstep, mask_valid, beatstep,
                   offset_sec, instrument_notes, shifted_notes>>
    /\ UNCHANGED <<segvars, callvars, batchvars, codecvars>>

\* Lines 366-369. remove_invalid_notes belongs to pretty_midi: it keeps some
\* of the notes, in their order.
RemoveInvalidNotes ==
    /\ midi_pc = "notes"
    /\ midi_pos > Len(midi_notes)
    /\ \E I \in SUBSET (1..Len(new_notes)) : instrument_notes' = SelectFrom(new_notes, I, 1)
    /\ midi_pc' = "shift"
    /\ UNCHANGED <<midi_notes, beatsteps, extrapolated_beatstep, mask_valid, beatstep,
                   offset_sec, midi_pos, new_notes, shifted_notes, midi_outcome>>
    /\ UNCHANGED <<segvars, callvars, batchvars, codecvars>>

\* Lines 497-500: note.start += beatsteps[0]; note.end += beatsteps[0]. The
\* Note objects of the container are the ones that are changed.
ShiftNotes ==
    /\ midi_pc = "shift"
    /\ LET shifted == [i \in 1..Len(instrument_notes) |->
                          <<instrument_notes[i][1] + beatsteps[1],
                            instrument_notes[i][2] + beatsteps[1],
                            instrument_notes[i][3], instrument_notes[i][4],
                            instrument_notes[i][5]>>]
       IN /\ shifted_notes' = shifted
          /\ instrument_notes' = shifted
    /\ midi_outcome' = "returned"
    /\ midi_pc' = "done"
    /\ UNCHANGED <<midi_notes, beatsteps, extrapolated_beatstep, mask_valid, beatstep,
                   offset_sec, midi_pos, new_notes>>
    /\ UNCHANGED <<segvars, callvars, batchvars, codecvars>>

MidiNext ==
    \/ Truncate
    \/ TakeOffset
    \/ MaterializeNote
    \/ RemoveInvalidNotes
    \/ ShiftNotes

MidiSpec == MidiInit /\ [][MidiNext]_vars

-----------------------------------------------------------------------------
(* Properties of the Segment Decoder, checked under Spec.                  *)

NoteId(p) == _convert_token_to_id(p, TOKEN_NOTE)
TimeId(t) == _convert_token_to_id(t, TOKEN_TIME)
VelocityId(v) == _convert_token_to_id(v, TOKEN_VELOCITY)
EosId == _convert_token_to_id(1, TOKEN_SPECIAL)

\* The loop is about to scan a word of the given type.
AtWord(type) == pc = "scan" /\ words[pos][1] = type

\* The loop is about to scan a NOTE token whose pitch holds an onset that
\* lies before the cursor.
ClosingNote ==
    /\ AtWord(TOKEN_NOTE)
    /\ OnsetAt(note_onsets_ready, words[pos][2]) # None
    /\ OnsetAt(note_onsets_ready, words[pos][2]) < current_idx

\* C1: a NOTE token for pitch p scanned while pending_onsets[p] = o with
\* o < cursor appends exactly one note (o, cursor, p, DEFAULT_VELOCITY); and
\* [NOTE(p), TIME(3), NOTE(p)] from start index 0, with no cutoff, returns
\* exactly the one note (0, 3, p, DEFAULT_VELOCITY).
C1_CloseEmitsNote ==
    /\ [][ClosingNote =>
            notes' = Append(notes, <<OnsetAt(note_onsets_ready, words[pos][2]), current_idx,
                                     words[pos][2], DEFAULT_VELOCITY>>)]_vars
    /\ [](\A p \in 0..(MaxPitch - 1) :
            (/\ pc = "done"
             /\ tokens = <<NoteId(p), TimeId(3), NoteId(p)>>
             /\ start_idx = 0
             /\ cutoff_time_idx = None)
            => result = <<<<0, 3, p, DEFAULT_VELOCITY>>>>)

C1_Witness ==
    /\ pc = "done"
    /\ tokens = <<NoteId(1), TimeId(3), NoteId(1)>>
    /\ start_idx = 0
    /\ cutoff_time_idx = None
    /\ result = <<<<0, 3, 1, DEFAULT_VELOCITY>>>>

\* C2: every opened onset is closed exactly once: the returned notes are as
\* many as the onsets written into pending_onsets, and each opening's pitch
\* and time index are the pitch and onset of exactly one returned note.
C2_OpenedClosedOnce ==
    pc = "done" =>
        /\ Len(result) = Len(opened)
        /\ \A i \in 1..Len(opened) :
              Cardinality({j \in 1..Len(result) :
                              result[j][3] = opened[i][1] /\ result[j][1] = opened[i][2]}) = 1

\* A closing NOTE token re-opened its pitch (velocity nonzero), and both
\* onsets were returned.
C2_Witness ==
    /\ pc = "done"
    /\ Len(opened) = 2
    /\ opened[1][1] = opened[2][1]
    /\ opened[1][2] < opened[2][2]
    /\ Len(result) = 2

\* C3: every returned note has onset_time_index <= offset_time_index, for
\* any tokens, start index and cutoff (set or none).
C3_OnsetBeforeOffset ==
    pc = "done" => \A j \in 1..Len(result) : result[j][1] <= result[j][2]

\* A cutoff behind the start pulled the cursor below a pending onset, which
\* was then force-closed.
C3_Witness ==
    /\ pc = "done"
    /\ cutoff_time_idx # None
    /\ current_idx < start_idx
    /\ \E j \in 1..Len(result) : result[j][1] = start_idx /\ result[j][2] > result[j][1]

\* The value the cursor takes after a TIME token of value v.
C4_Expected(v) ==
    IF cutoff_time_idx = None THEN current_idx + v
    ELSE IF current_idx + v <= cutoff_time_idx THEN current_idx + v ELSE cutoff_time_idx

\* C4 as claimed: after every scanned TIME token the cursor is >= its value
\* before the token, for every start index and every cutoff, and it is
\* min(cursor + v, cutoff) with a cutoff and cursor + v without one.
C4_Original ==
    [][AtWord(TOKEN_TIME) =>
          /\ current_idx' >= current_idx
          /\ current_idx' = C4_Expected(words[pos][2])]_vars

\* C4 as amended: after every scanned TIME token the cursor is
\* min(cursor + v, cutoff) with a cutoff and cursor + v without one; it is >=
\* its value before the token when there is no cutoff or
\* start_time_index <= cutoff_time_index.
C4_CursorForward ==
    [][AtWord(TOKEN_TIME) =>
          /\ current_idx' = C4_Expected(words[pos][2])
          /\ (cutoff_time_idx = None \/ start_idx <= cutoff_time_idx)
                => current_idx' >= current_idx]_vars

\* A TIME(3) token was clamped to a cutoff ahead of the start.
C4_Witness ==
    /\ pc = "done"
    /\ tokens[1] = TimeId(3)
    /\ start_idx = 0
    /\ cutoff_time_idx = 2
    /\ current_idx = 2

\* C5: a SPECIAL token with value 1 halts scanning: for tokens =
\* prefix ++ [SPECIAL(1)] ++ suffix the notes collected, and the array
\* returned, are those of prefix ++ [SPECIAL(1)] alone, whatever the suffix.
C5_EndMarkerHalts ==
    \A k \in 1..Len(tokens) :
        (/\ pc \in {"sort", "done"}
         /\ tokens[k] = EosId
         /\ \A i \in 1..(k - 1) : tokens[i] # EosId)
        => /\ notes = UnsortedNotes(SubSeq(tokens, 1, k), start_idx, cutoff_time_idx)
           /\ pc = "done" =>
                 result \in relative_tokens_to_notes(SubSeq(tokens, 1, k), start_idx, cutoff_time_idx)

\* An end marker was followed by tokens that would have closed the pending
\* onset at a later index.
C5_Witness ==
    /\ pc = "done"
    /\ tokens = <<NoteId(0), EosId, TimeId(3), NoteId(0)>>
    /\ start_idx = 0
    /\ cutoff_time_idx = None
    /\ result = <<<<0, 1, 0, DEFAULT_VELOCITY>>>>

\* The note that closes the pending onset of pitch p when scanning has ended.
C6_Forced(p) ==
    LET o == note_onsets_ready[p]
    IN <<o,
         IF cutoff_time_idx = None THEN Max(current_idx, o + 1)
         ELSE Max(current_idx, Max(cutoff_time_idx, o + 1)),
         p, DEFAULT_VELOCITY>>

\* C6: after scanning, each pitch p with a pending onset o yields exactly one
\* note (o, offset, p, DEFAULT_VELOCITY), offset = max(cursor, o+1) without a
\* cutoff and max(cursor, cutoff, o+1) with one, and nothing else is
\* appended; a single NOTE(p) token with no cutoff returns exactly
\* (start, start+1, p, DEFAULT_VELOCITY).
C6_ForceClose ==
    /\ [][pc = "close" =>
            /\ Len(notes') = Len(notes) + Cardinality(DOMAIN note_onsets_ready)
            /\ SubSeq(notes', 1, Len(notes)) = notes
            /\ \A p \in DOMAIN note_onsets_ready :
                  Cardinality({j \in (Len(notes) + 1)..Len(notes') :
                                  notes'[j] = C6_Forced(p)}) = 1]_vars
    /\ [](\A p \in 0..(MaxPitch - 1) :
            (pc = "done" /\ tokens = <<NoteId(p)>> /\ cutoff_time_idx = None)
            => result = <<<<start_idx, start_idx + 1, p, DEFAULT_VELOCITY>>>>)

\* Two pitches were still pending at the end of a segment with a cutoff, one
\* opened at the cutoff itself.
C6_Witness ==
    /\ pc = "sort"
    /\ start_idx = 0
    /\ cutoff_time_idx = 2
    /\ note_onsets_ready = (0 :> 0 @@ 1 :> 2)
    /\ notes = <<<<0, 2, 0, DEFAULT_VELOCITY>>, <<2, 3, 1, DEFAULT_VELOCITY>>>>

\* C7: the returned notes are in ascending order of onset_index*128 +
\* offset_index (and are the emitted notes, rearranged), whatever order the
\* tokens emitted them in.
C7_SortedByKey ==
    pc = "done" =>
        /\ Len(result) = Len(notes)
        /\ \A j \in 1..Len(notes) : \E i \in 1..Len(result) : result[i] = notes[j]
        /\ \A i, j \in 1..Len(result) :
              i < j => result[i][1] * 128 + result[i][2] <= result[j][1] * 128 + result[j][2]

\* The notes were emitted out of key order: a force-closed note of a lower
\* pitch with a later onset came first.
C7_Witness ==
    /\ pc = "done"
    /\ Len(notes) >= 2
    /\ notes[1][1] * 128 + notes[1][2] > notes[2][1] * 128 + notes[2][2]
    /\ result[1] = notes[2]

\* C18: every emitted and every returned note has velocity DEFAULT_VELOCITY,
\* whatever VELOCITY tokens the sequence holds.
C18_DefaultVelocity ==
    /\ \A i \in 1..Len(notes) : notes[i][4] = DEFAULT_VELOCITY
    /\ \A i \in 1..Len(result) : result[i][4] = DEFAULT_VELOCITY

\* A VELOCITY token of value 1 was scanned and changed which notes exist (the
\* closing NOTE token opened a second note), and both notes carry the default
\* velocity.
C18_Witness ==
    /\ pc = "done"
    /\ tokens = <<VelocityId(1), NoteId(0), TimeId(1), NoteId(0)>>
    /\ current_velocity = 1
    /\ Len(result) = 2
    /\ result[1][4] = DEFAULT_VELOCITY
    /\ result[2][4] = DEFAULT_VELOCITY

\* The cutoff, if any, lies past the start index: a TIME token moves the
\* cursor forward.
CursorCanAdvance == cutoff_time_idx = None \/ cutoff_time_idx > start_idx

\* C20: right after a NOTE token of pitch p closes a pending onset that lies
\* before the cursor, the slot of p is None when the current velocity is 0
\* and holds the cursor otherwise. So [NOTE(p), TIME(3), NOTE(p)], decoded
\* with no cutoff or a cutoff past the start index (the TIME token moves the
\* cursor past the onset), leaves no pending onset for p, and with
\* VELOCITY(1) in front the closing token opens an onset at the cursor that
\* gives a second note of p.
C20_ReopenOnVelocity ==
    /\ [][ClosingNote =>
            OnsetAt(note_onsets_ready', words[pos][2])
                = IF current_velocity = 0 THEN None ELSE current_idx]_vars
    /\ [](\A p \in 0..(MaxPitch - 1) :
            /\ (/\ pc \in {"close", "sort", "done"}
                /\ CursorCanAdvance
                /\ tokens = <<NoteId(p), TimeId(3), NoteId(p)>>)
               => OnsetAt(note_onsets_ready, p) = None
            /\ (/\ pc = "done"
                /\ CursorCanAdvance
                /\ tokens = <<VelocityId(1), NoteId(p), TimeId(3), NoteId(p)>>)
               => /\ Len(result) = 2
                  /\ result[1][3] = p
                  /\ result[2][3] = p
                  /\ result[1][2] = result[2][1])

\* With velocity 1 the closing NOTE token re-opened pitch 1 at the cursor, and
\* the onset was force-closed into a second note.
C20_Witness ==
    /\ pc = "done"
    /\ tokens = <<VelocityId(1), NoteId(1), TimeId(3), NoteId(1)>>
    /\ start_idx = 0
    /\ cutoff_time_idx = None
    /\ OnsetAt(note_onsets_ready, 1) = 3
    /\ result = <<<<0, 3, 1, DEFAULT_VELOCITY>>, <<3, 4, 1, DEFAULT_VELOCITY>>>>

\* The loop is about to scan a NOTE token whose pitch holds an onset that
\* does not lie before the cursor.
NonClosingNote ==
    /\ AtWord(TOKEN_NOTE)
    /\ OnsetAt(note_onsets_ready, words[pos][2]) # None
    /\ OnsetAt(note_onsets_ready, words[pos][2]) >= current_idx

\* C21: a NOTE token of pitch p scanned while the slot of p holds an onset at
\* or after the cursor emits no note and leaves every slot, the cursor, the
\* velocity and the emitted notes as they were.
C21_NoProgressNoChange ==
    [][NonClosingNote =>
          /\ notes' = notes
          /\ note_onsets_ready' = note_onsets_ready
          /\ current_idx' = current_idx
          /\ current_velocity' = current_velocity]_vars

\* A cutoff behind the start moved the cursor below the pending onset of
\* pitch 0; the second NOTE token was scanned and changed nothing.
C21_Witness ==
    /\ pc = "close"
    /\ tokens = <<NoteId(0), TimeId(1), NoteId(0)>>
    /\ start_idx = 2
    /\ cutoff_time_idx = 1
    /\ current_idx = 1
    /\ note_onsets_ready = SetOnset(NoOnsets, 0, 2)
    /\ notes = <<>>

C28_WithinCutoff ==
    (pc = "done" /\ cutoff_time_idx # None /\ start_idx <= cutoff_time_idx) =>
        \A j \in 1..Len(result) :
            /\ start_idx <= result[j][1]
            /\ result[j][1] <= cutoff_time_idx
            /\ result[j][2] <= cutoff_time_idx + 1
            /\ result[j][2] = cutoff_time_idx + 1 =>
                  /\ result[j][1] = cutoff_time_idx
                  /\ OnsetAt(note_onsets_ready, result[j][3]) = result[j][1]

\* A pitch opened at the cutoff was force-closed one step past it, after a
\* note that ends at or before the cutoff.
C28_Witness ==
    /\ pc = "done"
    /\ start_idx = 0
    /\ cutoff_time_idx = 2
    /\ Len(result) = 2
    /\ result[1][2] <= cutoff_time_idx
    /\ result[2][1] = cutoff_time_idx
    /\ result[2][2] = cutoff_time_idx + 1

\* C29: returned notes of one pitch do not overlap: of two of them the one
\* with the smaller onset ends at or before the onset of the other, and no
\* two of them have the same onset.
C29_NoOverlap ==
    pc = "done" =>
        \A i, j \in 1..Len(result) :
            (i # j /\ result[i][3] = result[j][3]) =>
                /\ result[i][1] # result[j][1]
                /\ result[i][1] < result[j][1] => result[i][2] <= result[j][1]

\* With velocity 1 a pitch was closed and opened again at the same index: its
\* two notes touch.
C29_Witness ==
    /\ pc = "done"
    /\ Len(result) = 2
    /\ result[1][3] = result[2][3]
    /\ result[1][1] < result[2][1]
    /\ result[1][2] = result[2][1]

\* The id decodes to a SPECIAL word whose value is not 1.
IsSpecialNotEnd(id) ==
    /\ _convert_id_to_token(id, 0)[1] = TOKEN_SPECIAL
    /\ _convert_id_to_token(id, 0)[2] # 1

IsNotSpecialNotEnd(id) == ~IsSpecialNotEnd(id)

\* The sequence without the SPECIAL tokens of value other than 1 that follow
\* its first position.
WithoutSpecialNotEnd(toks) == <<toks[1]>> \o SelectSeq(Tail(toks), IsNotSpecialNotEnd)

\* C31: a SPECIAL token whose value is not 1 changes nothing but the position
\* of the scan, which goes on with the next token; the returned notes are those
\* of the sequence with all such tokens after the first position removed.
C31_SpecialNoOp ==
    /\ [][(AtWord(TOKEN_SPECIAL) /\ words[pos][2] # 1) =>
            /\ pc' = AfterWord(pos)
            /\ pos' = pos + 1
            /\ UNCHANGED <<current_idx, current_velocity, note_onsets_ready, notes, opened>>]_vars
    /\ [](pc \in {"sort", "done"} =>
            /\ notes = UnsortedNotes(WithoutSpecialNotEnd(tokens), start_idx, cutoff_time_idx)
            /\ pc = "done" =>
                  result \in relative_tokens_to_notes(WithoutSpecialNotEnd(tokens),
                                                      start_idx, cutoff_time_idx))

\* A pad token between the opening NOTE token and the shift was scanned, and
\* the note is the one of [NOTE(0), TIME(3), NOTE(0)].
C31_Witness ==
    /\ pc = "done"
    /\ tokens = <<NoteId(0), 0, TimeId(3), NoteId(0)>>
    /\ start_idx = 0
    /\ cutoff_time_idx = None
    /\ WithoutSpecialNotEnd(tokens) = <<NoteId(0), TimeId(3), NoteId(0)>>
    /\ result = <<<<0, 3, 0, DEFAULT_VELOCITY>>>>

\* The loop is about to scan a NOTE token whose pitch holds no onset.
OpeningNote ==
    /\ AtWord(TOKEN_NOTE)
    /\ OnsetAt(note_onsets_ready, words[pos][2]) = None

\* C32: a NOTE(p) token scanned while pitch p has no pending onset opens an
\* onset at the cursor and emits no note, at velocity 0 as at velocity 1; and
\* a NOTE token that does not close a pending onset has the same effect at
\* either velocity.
C32_OpensAtAnyVelocity ==
    /\ [][OpeningNote =>
            /\ note_onsets_ready' = SetOnset(note_onsets_ready, words[pos][2], current_idx)
            /\ OnsetAt(note_onsets_ready', words[pos][2]) = current_idx
            /\ notes' = notes
            /\ UNCHANGED <<current_idx, current_velocity>>]_vars
    /\ [][(AtWord(TOKEN_NOTE) /\ ~ClosingNote) =>
            \A v \in 0..(vocab_size_velocity - 1) :
                LET r == token_note_to_note(words[pos][2], v, DEFAULT_VELOCITY,
                                            note_onsets_ready, current_idx, notes)
                IN /\ note_onsets_ready' = r.onsets
                   /\ notes' = r.notes]_vars

\* After VELOCITY(0) and TIME(3), NOTE(0) has opened an onset at cursor 3 while
\* the velocity is 0, and no note has been emitted.
C32_Witness ==
    /\ pc = "scan"
    /\ pos = 4
    /\ tokens[1] = VelocityId(0)
    /\ tokens[2] = TimeId(3)
    /\ tokens[3] = NoteId(0)
    /\ start_idx = 0
    /\ cutoff_time_idx = None
    /\ current_velocity = 0
    /\ current_idx = 3
    /\ note_onsets_ready = SetOnset(NoOnsets, 0, 3)
    /\ notes = <<>>

\* The loop was left at an end marker: the last word scanned is SPECIAL(1).
HaltedAtEndMarker ==
    /\ pc \in {"close", "sort", "done"}
    /\ pos >= 2
    /\ words[pos - 1] = <<TOKEN_SPECIAL, 1>>

\* C33: scanning SPECIAL(1) leads to the force-close loop with the cursor and
\* the pending onsets as they were at the halt, and these stay so until the
\* notes are returned; the list returned after a halt holds, for every onset
\* still pending at the halt, exactly one note closed at max(cursor, cutoff,
\* onset + 1), and one note for every onset opened before the end marker.
C33_HaltStillForceCloses ==
    /\ [][(AtWord(TOKEN_SPECIAL) /\ words[pos][2] = 1) =>
            /\ pc' = "close"
            /\ UNCHANGED <<current_idx, note_onsets_ready, notes, opened>>]_vars
    /\ [][HaltedAtEndMarker => UNCHANGED <<current_idx, note_onsets_ready, opened, pos>>]_vars
    /\ []((HaltedAtEndMarker /\ pc = "done") =>
            /\ \A p \in DOMAIN note_onsets_ready :
                  Cardinality({j \in 1..Len(result) : result[j] = C6_Forced(p)}) = 1
            /\ \A i \in 1..Len(opened) :
                  \E j \in 1..Len(result) :
                      result[j][3] = opened[i][1] /\ result[j][1] = opened[i][2])

\* The end marker halted the scan at cursor 3 with the onset of pitch 0
\* pending since index 0, before a NOTE(0) that would have closed it; the
\* onset was force-closed at the cursor of the halt.
C33_Witness ==
    /\ pc = "done"
    /\ tokens = <<NoteId(0), TimeId(3), EosId, NoteId(0)>>
    /\ start_idx = 0
    /\ cutoff_time_idx = None
    /\ HaltedAtEndMarker
    /\ pos = 4
    /\ current_idx = 3
    /\ note_onsets_ready = SetOnset(NoOnsets, 0, 0)
    /\ result = <<<<0, 3, 0, DEFAULT_VELOCITY>>>>

-----------------------------------------------------------------------------
(* Properties of the Segment Decoder over arbitrary integer ids, checked   *)
(* under WideSpec.                                                         *)

\* C19: with a non-negative start index, every emitted and returned note has
\* a pitch in [0, N) and non-negative onset and offset indices, for every
\* sequence of integer ids, those at or past S+N+V+T and below 0 included;
\* slot N of note_onsets_ready is never written.
C19_NotesInRange ==
    /\ \A i \in 1..Len(notes) :
          /\ notes[i][3] >= 0 /\ notes[i][3] < vocab_size_note
          /\ notes[i][1] >= 0 /\ notes[i][2] >= 0
    /\ \A i \in 1..Len(result) :
          /\ result[i][3] >= 0 /\ result[i][3] < vocab_size_note
          /\ result[i][1] >= 0 /\ result[i][2] >= 0
    /\ \A q \in DOMAIN note_onsets_ready : q >= 0 /\ q < vocab_size_note
    /\ \A i \in 1..Len(opened) : opened[i][1] >= 0 /\ opened[i][1] < vocab_size_note

\* A sequence with an id past the vocabulary in the middle, an id below 0 and
\* the highest NOTE id returned a note of pitch N - 1.
C19_Witness ==
    /\ pc = "done"
    /\ tokens = <<0 - 1, NoteId(vocab_size_note - 1), VocabEnd + 1, NoteId(vocab_size_note - 1)>>
    /\ start_idx = 0
    /\ cutoff_time_idx = None
    /\ result = <<<<0, vocab_size_time + 1, vocab_size_note - 1, DEFAULT_VELOCITY>>>>

-----------------------------------------------------------------------------
(* Properties of the Request Orchestrator, checked under CallSpec.         *)

\* The separator rows of the call, ascending.
Separators == Ascending(ZeroRows(attention_mask0))

\* The rows strictly between separator k-1 (or the start) and separator k,
\* for the k-th example, k = 1, 2, ...
RowsOfExample(k) ==
    {r \in 0..(n_token_rows - 1) :
        /\ r < Separators[k]
        /\ k > 1 => r > Separators[k - 1]}

\* C8 as claimed: with an attention mask, for every number of examples and
\* every placement of the separators, the rows decoded for each example are
\* exactly the rows strictly between its two separators, and the call does
\* not stop on an example whose own rows hold an eos id.
C8_Original ==
    attention_masks_present =>
        /\ \A k \in 1..Len(decoded) : decoded[k].rows = RowsOfExample(k)
        /\ (outcome = "crash" /\ Len(decoded) < Len(batch_idx)) =>
              \A r \in RowsOfExample(Len(decoded) + 1) : token_eos[r] = None

\* C9: with an attention mask, a count of zero rows that differs from the
\* number of beatstep arrays ends the call with a validation error before any
\* example is decoded; with equal counts (and as many extrapolated arrays,
\* and a mask as long as token_ids) no validation error is raised, and a
\* zero row at position 5 of 7 rows with one beatstep array succeeds.
C9_CountValidated ==
    (attention_masks_present /\ call_pc # "validate") =>
        /\ Cardinality(ZeroRows(attention_mask0)) # n_beatsteps
              => outcome = "validation_error" /\ decoded = <<>> /\ call_pc = "done"
        /\ (/\ Cardinality(ZeroRows(attention_mask0)) = n_beatsteps
            /\ n_extrapolated = n_beatsteps
            /\ Size(attention_mask0) = n_token_rows)
              => outcome # "validation_error"
        /\ (/\ call_pc = "done"
            /\ n_token_rows = 7
            /\ attention_mask0 = [r \in 0..6 |-> IF r = 5 THEN 0 ELSE 1]
            /\ n_beatsteps = 1
            /\ n_extrapolated = 1
            /\ \A r \in 0..4 : token_eos[r] # None)
              => outcome = "returned" /\ Len(decoded) = 1 /\ decoded[1].rows = 0..4

\* Two zero rows with two beatstep arrays: both examples were decoded.
C9_Witness ==
    /\ attention_masks_present
    /\ Cardinality(ZeroRows(attention_mask0)) = 2
    /\ n_beatsteps = 2
    /\ outcome = "returned"
    /\ Len(decoded) = 2

\* C10: without attention masks, more than one beatstep array (or more than
\* one extrapolated array) ends the call with a validation error and nothing
\* decoded; otherwise all token rows form the one example.
C10_SingleExample ==
    (~attention_masks_present /\ call_pc # "validate") =>
        /\ (n_beatsteps > 1 \/ n_extrapolated > 1)
              => outcome = "validation_error" /\ decoded = <<>> /\ call_pc = "done"
        /\ outcome # "validation_error" => batch_idx = <<n_token_rows>>
        /\ outcome = "returned" =>
              Len(decoded) = 1 /\ decoded[1].rows = 0..(n_token_rows - 1)
        /\ \A k \in 1..Len(decoded) : decoded[k].rows = 0..(n_token_rows - 1)

\* A call without masks returned after decoding its three rows as one example.
C10_Witness ==
    /\ ~attention_masks_present
    /\ n_token_rows = 3
    /\ outcome = "returned"
    /\ Len(decoded) = 1
    /\ decoded[1].rows = {0, 1, 2}

\* The token rows of the k-th example of the input, k = 1, 2, ...: the rows
\* between its separators with an attention mask, every row without one.
ExampleRows(k) ==
    IF attention_masks_present THEN RowsOfExample(k) ELSE 0..(n_token_rows - 1)

\* C17 as claimed: the aggregated notes and the containers follow the order
\* of the input examples: the notes of example k come before those of
\* example k+1, and the k-th container (and its notes) is built from the rows
\* of example k and the beatstep arrays of example k.
C17_Original ==
    /\ \A i, j \in 1..Len(notes_list) :
          i < j => notes_list[i].example <= notes_list[j].example
    /\ \A k \in 1..Len(decoded) :
          /\ decoded[k].beatsteps = k - 1
          /\ decoded[k].rows = ExampleRows(k)
    /\ \A i \in 1..Len(notes_list) :
          notes_list[i].rows = ExampleRows(notes_list[i].example + 1)

-----------------------------------------------------------------------------
(* Properties of the Batch Stitcher, checked under BatchSpec.              *)

\* The notes of the first k rows' calls, one row after the other.
RECURSIVE RowNotesUpTo(_)
RowNotesUpTo(k) ==
    IF k = 0 THEN <<>> ELSE RowNotesUpTo(k - 1) \o row_calls[k].notes

\* C11: the returned list is the concatenation, in row order, of what
\* relative_tokens_to_notes returns for each row i (counted from 0) with
\* start beat_offset_idx + i*bars_per_batch*4 and cutoff cutoff_time_idx +
\* start, every row decoded from the initial decoder state; a row without
\* notes adds nothing, and when no row has notes the result is empty.
C11_Reference ==
    /\ \A k \in 1..Len(row_calls) :
          LET start_i == beat_offset_idx + (k - 1) * bars_per_batch * 4
              cutoff_i == batch_cutoff_time_idx + start_i
          IN /\ row_calls[k].start_idx = start_i
             /\ row_calls[k].cutoff_time_idx = cutoff_i
             /\ row_calls[k].notes \in
                    ArgsortResults(UnsortedNotes(batch_tokens[k], start_i, cutoff_i))
    /\ batch_notes = RowNotesUpTo(Len(row_calls))
    /\ batch_notes_none <=> \A k \in 1..Len(row_calls) : row_calls[k].notes = <<>>
    /\ batch_pc = "done" =>
          /\ Len(row_calls) = Len(batch_tokens)
          /\ batch_result = RowNotesUpTo(Len(batch_tokens))
          /\ (\A k \in 1..Len(row_calls) : row_calls[k].notes = <<>>) => batch_result = <<>>

\* Three rows were decoded: the first and the last gave different notes, the
\* one between them gave none.
C11_Witness ==
    /\ batch_pc = "done"
    /\ Len(batch_tokens) = 3
    /\ row_calls[1].notes # <<>>
    /\ row_calls[2].notes = <<>>
    /\ row_calls[3].notes # <<>>
    /\ row_calls[1].notes # row_calls[3].notes
    /\ batch_result = row_calls[1].notes \o row_calls[3].notes

\* C12: with bars_per_batch = 2 and beat_offset_idx = 0, row i (from 0) is
\* decoded with start index i*8, and each of its notes has an onset index of
\* at least i*8 and at most i*8 + cutoff_time_idx, whatever its tokens are.
C12_OnsetWithinSegment ==
    (beat_offset_idx = 0 /\ bars_per_batch = 2) =>
        \A k \in 1..Len(row_calls) :
            /\ row_calls[k].start_idx = (k - 1) * 8
            /\ \A j \in 1..Len(row_calls[k].notes) :
                  /\ row_calls[k].notes[j][1] >= (k - 1) * 8
                  /\ row_calls[k].notes[j][1] <= (k - 1) * 8 + batch_cutoff_time_idx

\* Rows 0, 1 and 2 all gave notes: one of row 0 starts at the row's start
\* index, one of row 2 starts at the row's cutoff, 16 + 12.
C12_Witness ==
    /\ batch_pc = "done"
    /\ beat_offset_idx = 0
    /\ bars_per_batch = 2
    /\ Len(row_calls) = 3
    /\ \E j \in 1..Len(row_calls[1].notes) : row_calls[1].notes[j][1] = 0
    /\ row_calls[2].notes # <<>>
    /\ \E j \in 1..Len(row_calls[3].notes) :
          row_calls[3].notes[j][1] = 16 + batch_cutoff_time_idx

\* The notes ascend in onset_index*128 + offset_index.
AscendingInKey(ns) ==
    \A i, j \in 1..Len(ns) : i < j => note_order(ns[i]) <= note_order(ns[j])

\* C13 as claimed: the returned list is one sorted list, ascending in
\* onset_index*128 + offset_index across all rows together.
C13_Original == batch_pc = "done" => AscendingInKey(batch_result)

\* C13: the returned list is the rows' lists one after the other in row
\* order, and the notes of each row ascend in onset_index*128 + offset_index
\* among themselves.
C13_SortedWithinRows ==
    batch_pc = "done" =>
        /\ batch_result = RowNotesUpTo(Len(batch_tokens))
        /\ \A k \in 1..Len(row_calls) : AscendingInKey(row_calls[k].notes)

\* Row 0 gave two notes that its tokens emitted out of key order, and its
\* last note lies after the first note of row 1.
C13_Witness ==
    /\ batch_pc = "done"
    /\ Len(row_calls) >= 2
    /\ Len(row_calls[1].notes) = 2
    /\ note_order(row_calls[1].notes[1]) < note_order(row_calls[1].notes[2])
    /\ row_calls[1].notes[1][3] > row_calls[1].notes[2][3]
    /\ row_calls[2].notes # <<>>
    /\ note_order(row_calls[1].notes[2]) > note_order(row_calls[2].notes[1])

-----------------------------------------------------------------------------
(* Properties of the Token Codec, checked under CodecSpec.                 *)

\* C14: a value inside the range of its type, encoded and then decoded with
\* time offset 0, comes back as the same type and value, for each of the
\* four types.
C14_RoundTrip ==
    (codec_pc = "done" /\ codec_token_type \in TokenTypes /\ codec_offset = 0) =>
        codec_out = <<codec_token_type, codec_token>>

\* The last TIME value made the round trip.
C14_Witness ==
    /\ codec_pc = "done"
    /\ codec_token_type = TOKEN_TIME
    /\ codec_token = vocab_size_time - 1
    /\ codec_offset = 0
    /\ codec_id = VocabEnd - 1
    /\ codec_out = <<TOKEN_TIME, vocab_size_time - 1>>

\* C15 as claimed: an id below 0 or at or past S+N+V+T is not decoded to a
\* pair of one of the four types.
C15_Original ==
    (codec_pc = "done" /\ (codec_id >= VocabEnd \/ codec_id < 0)) =>
        codec_out[1] \notin TokenTypes

\* The ranges of the four types as <<type, lower bound, upper bound>>, the
\* upper bound excluded.
TypeRanges ==
    {<<TOKEN_SPECIAL, 0, vocab_size_special>>,
     <<TOKEN_NOTE, vocab_size_special, vocab_size_special + vocab_size_note>>,
     <<TOKEN_VELOCITY, vocab_size_special + vocab_size_note,
       vocab_size_special + vocab_size_note + vocab_size_velocity>>,
     <<TOKEN_TIME, vocab_size_special + vocab_size_note + vocab_size_velocity, VocabEnd>>}

\* C16: an id in [0, S+N+V+T) lies in exactly one range and decodes to that
\* range's type with value id - lower bound, plus the time offset for TIME
\* only; the ids S, S+N and S+N+V decode to value 0 of the higher range.
C16_RangeClassified ==
    (codec_pc = "done" /\ codec_id >= 0 /\ codec_id < VocabEnd) =>
        /\ Cardinality({r \in TypeRanges : r[2] <= codec_id /\ codec_id < r[3]}) = 1
        /\ \A r \in TypeRanges :
              (r[2] <= codec_id /\ codec_id < r[3]) =>
                  codec_out = <<r[1], (codec_id - r[2])
                                         + (IF r[1] = TOKEN_TIME THEN codec_offset ELSE 0)>>
        /\ codec_id = vocab_size_special => codec_out = <<TOKEN_NOTE, 0>>
        /\ codec_id = vocab_size_special + vocab_size_note => codec_out = <<TOKEN_VELOCITY, 0>>
        /\ codec_id = vocab_size_special + vocab_size_note + vocab_size_velocity
              => codec_out = <<TOKEN_TIME, codec_offset>>

\* The first id of the TIME range was decoded with a time offset.
C16_Witness ==
    /\ codec_pc = "done"
    /\ codec_token_type = "none"
    /\ codec_id = vocab_size_special + vocab_size_note + vocab_size_velocity
    /\ codec_offset = 7
    /\ codec_out = <<TOKEN_TIME, 7>>
\* C22 as claimed: the first token is dropped exactly when it equals
\* S+N+V+T; a first token of any other value is kept and decoded.
C22_Original ==
    pc # "begin" => (Len(words) = Len(tokens) - 1 <=> tokens[1] = VocabEnd)

\* C22: the first token is dropped exactly when it is S+N+V+T or greater; a
\* first token below S+N+V+T is kept and decoded, and a token at or past
\* S+N+V+T at a later position is not dropped (it is decoded as a TIME token).
C22_FenceDropped ==
    pc # "begin" =>
        LET d == IF tokens[1] >= VocabEnd THEN 1 ELSE 0
        IN /\ Len(words) = Len(tokens) - d
           /\ \A i \in 1..Len(words) : words[i] = _convert_id_to_token(tokens[i + d], 0)

\* The first token, one past S+N+V+T, was dropped; the token S+N+V+T in third
\* position was kept and moved the cursor by T.
C22_Witness ==
    /\ pc = "done"
    /\ tokens = <<VocabEnd + 1, NoteId(0), VocabEnd, NoteId(0)>>
    /\ start_idx = 0
    /\ cutoff_time_idx = None
    /\ Len(words) = 3
    /\ words[2] = <<TOKEN_TIME, vocab_size_time>>
    /\ result = <<<<0, vocab_size_time, 0, DEFAULT_VELOCITY>>>>
-----------------------------------------------------------------------------
(* Properties of the sort of the Segment Decoder over longer sequences,    *)
(* checked under SortSpec.                                                 *)

\* Note a is not after note b in the order by onset, then by offset.
OnsetThenOffset(a, b) == a[1] < b[1] \/ (a[1] = b[1] /\ a[2] <= b[2])

\* C23 as claimed: for any two returned notes a before b, onset(a) < onset(b),
\* or the onsets are equal and offset(a) <= offset(b), for every token
\* sequence, with or without a cutoff.
C23_Original ==
    pc = "done" =>
        \A i, j \in 1..Len(result) : i < j => OnsetThenOffset(result[i], result[j])

\* C23: the returned notes ascend in onset_index*128 + offset_index; they are
\* ordered by onset and then by offset whenever the offsets of the returned
\* notes lie within a span of less than 128.
C23_KeyOrder ==
    pc = "done" =>
        /\ \A i, j \in 1..Len(result) :
              i < j => result[i][1] * 128 + result[i][2] <= result[j][1] * 128 + result[j][2]
        /\ (\A i, j \in 1..Len(result) : result[i][2] - result[j][2] < 128)
              => \A i, j \in 1..Len(result) :
                    i < j => OnsetThenOffset(result[i], result[j])

\* The notes were emitted out of order, all offsets lie within 128 steps, and
\* the returned notes are ordered by onset.
C23_Witness ==
    /\ pc = "done"
    /\ Len(result) >= 2
    /\ note_order(notes[1]) > note_order(notes[2])
    /\ \A i, j \in 1..Len(result) : result[i][2] - result[j][2] < 128
    /\ result[1][1] < result[2][1]
-----------------------------------------------------------------------------
(* Further properties of the Request Orchestrator, checked under CallSpec. *)

\* C25: for each example slice the kept columns are, for all its rows alike,
\* exactly 0..c, where c is the greatest column at which a row of the slice
\* holds the eos id: no column after c is kept and none up to c is removed.
C25_ColumnsTrimmed ==
    \A k \in 1..Len(decoded) :
        \E r \in decoded[k].rows :
            /\ token_eos[r] # None
            /\ \A q \in decoded[k].rows : token_eos[q] # None => token_eos[q] <= token_eos[r]
            /\ \A c \in 0..token_eos[r] : c \in decoded[k].columns
            /\ \A c \in decoded[k].columns : c >= 0 /\ c <= token_eos[r]

\* A slice of three rows was decoded: one row has its eos id in column 0, one
\* in column 1 and one has none; columns 0 and 1 were kept.
C25_Witness ==
    /\ outcome = "returned"
    /\ Len(decoded) >= 1
    /\ Cardinality(decoded[1].rows) = 3
    /\ \E r \in decoded[1].rows : token_eos[r] = 0
    /\ \E r \in decoded[1].rows : token_eos[r] = 1
    /\ \E r \in decoded[1].rows : token_eos[r] = None
    /\ decoded[1].columns = {0, 1}
-----------------------------------------------------------------------------
(* Properties of the Note Materializer, checked under MidiSpec.            *)

\* Some note handed to notes_to_midi has an onset or offset index that is not
\* an index of the time grid it is handed (the valid prefix of the
\* extrapolated beatstep).
SomeIndexOutOfRange ==
    \E k \in 1..Len(midi_notes) :
        midi_notes[k][1] >= mask_valid \/ midi_notes[k][2] >= mask_valid

\* C26: when a note's onset or offset index is at or past the length of the
\* time grid, notes_to_midi ends in an out-of-range error and no container
\* (and no note) is returned; when every index is inside the grid it succeeds.
C26_OutOfRangeFails ==
    /\ SomeIndexOutOfRange =>
          /\ midi_pc \notin {"shift"}
          /\ midi_outcome # "returned"
          /\ instrument_notes = <<>>
          /\ shifted_notes = <<>>
          /\ midi_pc = "done" => midi_outcome = "index_error"
    /\ ~SomeIndexOutOfRange =>
          /\ midi_outcome # "index_error"
          /\ midi_pc = "done" => midi_outcome = "returned"

\* The first note was built; the offset index of the second one is the length
\* of the truncated grid, inside the untruncated one, and the call failed.
C26_Witness ==
    /\ midi_pc = "done"
    /\ midi_outcome = "index_error"
    /\ Len(midi_notes) = 2
    /\ Len(new_notes) = 1
    /\ midi_notes[2][2] = mask_valid
    /\ mask_valid < Len(extrapolated_beatstep)

\* C27 as claimed: after the first raw beatstep is added back, the start of
\* every returned note is time_grid[onset index] and its end is
\* time_grid[offset index], time_grid being the truncated extrapolated
\* beatstep of the example.
C27_Original ==
    midi_outcome = "returned" =>
        \A i \in 1..Len(shifted_notes) :
            LET n == midi_notes[shifted_notes[i][5]]
            IN /\ shifted_notes[i][1] = beatstep[n[1] + 1]
               /\ shifted_notes[i][2] = beatstep[n[2] + 1]
-----------------------------------------------------------------------------
(* Further properties of the Segment Decoder over arbitrary integer ids,   *)
(* checked under WideSpec.                                                 *)

\* C30: the error "Token type not understood!" is never raised: every integer
\* id, those below 0 and those at or past S+N+V+T included, is decoded to a
\* word of one of the four types, and every call runs on to its return.
C30_NoDecodeError ==
    /\ pc # "error"
    /\ \A i \in 1..Len(words) :
          words[i][1] \in {TOKEN_SPECIAL, TOKEN_NOTE, TOKEN_VELOCITY, TOKEN_TIME}
    /\ pc = "scan" => pos <= Len(words)

\* An id below 0 and an id past S+N+V+T were scanned between the two NOTE
\* tokens of a note, and the call returned.
C30_Witness ==
    /\ pc = "done"
    /\ tokens = <<NoteId(0), 0 - 1, VocabEnd + 1, NoteId(0)>>
    /\ start_idx = 0
    /\ cutoff_time_idx = None
    /\ words[2] = <<TOKEN_SPECIAL, 0 - 1>>
    /\ words[3] = <<TOKEN_TIME, vocab_size_time + 1>>
    /\ result = <<<<0, vocab_size_time + 1, 0, DEFAULT_VELOCITY>>>>

====
